---- MODULE Spec2Model ----
(***************************************************************************)
(* Model of arc_protractor_generator.py: the alignment solver              *)
(* (calculate_null_points, calculate_effective_length_from_nulls), the     *)
(* validation and layout steps of draw_arc_protractor, and the two modes   *)
(* of main.                                                                *)
(*                                                                         *)
(* Numbers.  The program computes in binary floating point.  The model     *)
(* computes in fixed point: every length is an integer number of microns   *)
(* (0.001 mm), so that 60.325 mm, the 0.01 mm IEC tolerance and the        *)
(* 0.001 mm validation tolerance are all exact.  Squares and products of   *)
(* lengths exceed 32 bits and are kept as wide integers <<hi, lo>> of      *)
(* value hi * 10^6 + lo.  math.sqrt is the square root rounded to the      *)
(* nearest micron.  An angle asin(v) is represented by v in millionths     *)
(* (asin and degrees are strictly increasing on [-1, 1]); a value outside  *)
(* [-1, 1] raises ValueError as math.asin does.  reportlab's page unit     *)
(* `mm` is a positive factor common to every page length and is taken      *)
(* as 1.  IEEE special values (nan, inf) are outside the modelled inputs.  *)
(***************************************************************************)
EXTENDS Integers, Sequences, FiniteSets, TLC

Abs(a) == IF a < 0 THEN -a ELSE a

(***************************************************************************)
(* Wide integers: <<hi, lo>> with 0 <= lo < 10^6 stands for hi*10^6 + lo.  *)
(***************************************************************************)
WNorm(hi, lo) == <<hi + (lo \div 1000000), lo % 1000000>>

WInt(a) == WNorm(0, a)

WNeg(x) == WNorm(-x[1], -x[2])

WAdd(x, y) == WNorm(x[1] + y[1], x[2] + y[2])

WSub(x, y) == WNorm(x[1] - y[1], x[2] - y[2])

WLess(x, y) == x[1] < y[1] \/ (x[1] = y[1] /\ x[2] < y[2])

WIsNeg(x) == x[1] < 0

\* a * b for integers a, b, by schoolbook multiplication on base-1000 halves.
WMulAbs(a, b) ==
    LET a1 == a \div 1000
        a0 == a % 1000
        b1 == b \div 1000
        b0 == b % 1000
        cross == a1 * b0 + a0 * b1
    IN  WNorm(a1 * b1 + (cross \div 1000), (cross % 1000) * 1000 + a0 * b0)

WMul(a, b) ==
    IF (a < 0) = (b < 0) THEN WMulAbs(Abs(a), Abs(b))
                         ELSE WNeg(WMulAbs(Abs(a), Abs(b)))

\* x / m for a wide x >= 0 and an integer m > 0, by long division; truncated.
WDivAbs(x, m) ==
    LET q1 == x[1] \div m
        t1 == (x[1] % m) * 1000 + (x[2] \div 1000)
        q2 == t1 \div m
        t2 == (t1 % m) * 1000 + (x[2] % 1000)
        q3 == t2 \div m
    IN  q1 * 1000000 + q2 * 1000 + q3

\* x / m for a wide x and an integer m # 0, rounded toward zero.
WDiv(x, m) ==
    IF WIsNeg(x) = (m < 0) THEN WDivAbs(IF WIsNeg(x) THEN WNeg(x) ELSE x, Abs(m))
                           ELSE -WDivAbs(IF WIsNeg(x) THEN WNeg(x) ELSE x, Abs(m))

RECURSIVE SqrtIter(_, _, _)
SqrtIter(x, s, bit) ==
    IF bit = 0 THEN s
    ELSE IF WLess(x, WMul(s + bit, s + bit)) THEN SqrtIter(x, s, bit \div 2)
         ELSE SqrtIter(x, s + bit, bit \div 2)

\* math.sqrt of a wide x >= 0: the root rounded to the nearest integer.
WSqrt(x) ==
    LET s == SqrtIter(x, 0, 16777216)
    IN  IF WLess(WAdd(WMul(s, s), WInt(s)), x) THEN s + 1 ELSE s

(***************************************************************************)
(* Exceptions.  A function that can raise returns a record whose field     *)
(* exc names the exception ("none" when it returns normally).              *)
(***************************************************************************)
NoSolution(e) ==
    [exc |-> e, inner_null |-> 0, outer_null |-> 0, effective_length |-> 0,
     overhang |-> 0, offset_angle |-> 0, tracking_angle_midpoint |-> 0]

\* math.asin(num / den), the angle represented by its sine in millionths.
Asin(num, den) ==
    IF den = 0 THEN [exc |-> "ZeroDivisionError", val |-> 0]
    ELSE IF Abs(num) > Abs(den) THEN [exc |-> "MathDomainError", val |-> 0]
    ELSE [exc |-> "none", val |-> WDiv(WMul(num, 1000000), den)]

\* The tail of calculate_null_points (lines 167-184): Bauer's formula and the
\* two angles, from the null radii the branches above it have chosen.
BauerSolution(d, r1, r2) ==
    LET sq == WAdd(WMul(d, d), WMul(r1, r2))
        effective_length == WSqrt(sq)
        offset == Asin(r2 - r1, 2 * effective_length)
        midpoint == Asin(r1 + r2, 2 * effective_length)
    IN  IF WIsNeg(sq) THEN NoSolution("MathDomainError")
        ELSE IF offset.exc # "none" THEN NoSolution(offset.exc)
        ELSE IF midpoint.exc # "none" THEN NoSolution(midpoint.exc)
        ELSE [exc |-> "none", inner_null |-> r1, outer_null |-> r2,
              effective_length |-> effective_length,
              overhang |-> effective_length - d,
              offset_angle |-> offset.val,
              tracking_angle_midpoint |-> midpoint.val]

\* calculate_effective_length_from_nulls with the overhang subtracted the
\* other way round.
calculate_effective_length_from_nulls_OverhangSign(pivot_to_spindle, inner_null, outer_null) ==
    LET b == BauerSolution(pivot_to_spindle, inner_null, outer_null)
    IN  IF b.exc # "none" THEN b
        ELSE [b EXCEPT !.overhang = pivot_to_spindle - b.effective_length]

\* Lines 61-79.  The function returns (effective_length, overhang, offset_angle,
\* tracking_angle_midpoint); the caller keeps the nulls it passed (line 223),
\* which the record carries along.  r_midpoint / effective_length is taken as
\* (r1 + r2) / (2 * effective_length).
calculate_effective_length_from_nulls(pivot_to_spindle, inner_null, outer_null) ==
    LET d == pivot_to_spindle
        r1 == inner_null
        r2 == outer_null
        radicand == WAdd(WMul(d, d), WMul(r1, r2))
        effective_length == WSqrt(radicand)
        overhang == effective_length - d
        offset_angle == Asin(r2 - r1, 2 * effective_length)
        tracking_angle_midpoint == Asin(r1 + r2, 2 * effective_length)
    IN  IF WIsNeg(radicand) THEN NoSolution("MathDomainError")
        ELSE IF offset_angle.exc # "none" THEN NoSolution(offset_angle.exc)
        ELSE IF tracking_angle_midpoint.exc # "none"
             THEN NoSolution(tracking_angle_midpoint.exc)
        ELSE [exc |-> "none", inner_null |-> r1, outer_null |-> r2,
              effective_length |-> effective_length,
              overhang |-> overhang,
              offset_angle |-> offset_angle.val,
              tracking_angle_midpoint |-> tracking_angle_midpoint.val]

IEC_INNER == 60325

IEC_OUTER == 146050

\* The published null radii (IEC_N1, IEC_N2 of each branch; Stevenson's outer null).
IEC_N1(alignment_type) ==
    CASE alignment_type = "baerwald" -> 66040
      [] alignment_type = "lofgren_b" -> 70290

IEC_N2(alignment_type) ==
    CASE alignment_type = "baerwald" -> 120900
      [] alignment_type = "lofgren_b" -> 116600
      [] alignment_type = "stevenson" -> 117420


\* IsIECStandard comparing for equality, without the tolerance.
IsIECStandard_Exact(r_i, r_o) == r_i = 60325 /\ r_o = 146050

\* abs(r_i - IEC_INNER) < 0.01 and abs(r_o - IEC_OUTER) < 0.01
IsIECStandard(r_i, r_o) ==
    Abs(r_i - IEC_INNER) < 10 /\ Abs(r_o - IEC_OUTER) < 10

\* scale_factor = sqrt((r_o - r_i) / (IEC_OUTER - IEC_INNER)), in units of 10^-4;
\* defined for r_o >= r_i.
scale_factor(r_i, r_o) ==
    WSqrt(WInt(WDiv(WMul(r_o - r_i, 100000000), IEC_OUTER - IEC_INNER)))

\* offset * scale_factor, back in microns.
Scaled(offset, sf) == (offset * sf) \div 10000

\* The null radii of a named alignment: [exc, inner_null, outer_null].
NullRadii(alignment_type, r_i, r_o) ==
    IF alignment_type \in {"baerwald", "lofgren_b"} THEN
        IF IsIECStandard(r_i, r_o) THEN
            [exc |-> "none", inner_null |-> IEC_N1(alignment_type),
             outer_null |-> IEC_N2(alignment_type)]
        ELSE IF r_o - r_i < 0 THEN
            [exc |-> "MathDomainError", inner_null |-> 0, outer_null |-> 0]
        ELSE
            LET sf == scale_factor(r_i, r_o)
                offset_inner == IEC_N1(alignment_type) - IEC_INNER
                offset_outer == IEC_OUTER - IEC_N2(alignment_type)
            IN  [exc |-> "none", inner_null |-> r_i + Scaled(offset_inner, sf),
                 outer_null |-> r_o - Scaled(offset_outer, sf)]
    ELSE IF alignment_type = "stevenson" THEN
        IF IsIECStandard(r_i, r_o) THEN
            [exc |-> "none", inner_null |-> r_i, outer_null |-> IEC_N2("stevenson")]
        ELSE IF WIsNeg(WMul(r_i, r_o)) THEN
            [exc |-> "MathDomainError", inner_null |-> 0, outer_null |-> 0]
        ELSE
            [exc |-> "none", inner_null |-> r_i, outer_null |-> WSqrt(WMul(r_i, r_o))]
    ELSE
        [exc |-> "UnknownAlignmentType", inner_null |-> 0, outer_null |-> 0]

calculate_null_points(pivot_to_spindle, alignment_type, inner_groove, outer_groove) ==
    LET n == NullRadii(alignment_type, inner_groove, outer_groove)
    IN  IF n.exc # "none" THEN NoSolution(n.exc)
        ELSE BauerSolution(pivot_to_spindle, n.inner_null, n.outer_null)

tolerance == 1


\* ValidateCustom with the first comparison not strict.
ValidateCustom_InnerNotStrict(inner_null, outer_null, inner_groove, outer_groove) ==
    IF inner_null < inner_groove THEN "InnerNullNotAboveInnerGroove"
    ELSE IF outer_null >= outer_groove THEN "OuterNullNotBelowOuterGroove"
    ELSE IF inner_null >= outer_null THEN "InnerNullNotBelowOuterNull"
    ELSE "none"

\* ValidateCustom without the check against the outer groove.
ValidateCustom_NoOuterCheck(inner_null, outer_null, inner_groove, outer_groove) ==
    IF inner_null <= inner_groove THEN "InnerNullNotAboveInnerGroove"
    ELSE IF inner_null >= outer_null THEN "InnerNullNotBelowOuterNull"
    ELSE "none"

\* The custom-null checks of draw_arc_protractor: the exception raised, or "none".
ValidateCustom(inner_null, outer_null, inner_groove, outer_groove) ==
    IF inner_null <= inner_groove THEN "InnerNullNotAboveInnerGroove"
    ELSE IF outer_null >= outer_groove THEN "OuterNullNotBelowOuterGroove"
    ELSE IF inner_null >= outer_null THEN "InnerNullNotBelowOuterNull"
    ELSE "none"

\* ValidateNamed without the check that the inner null is below the outer one.
ValidateNamed_NoOrderCheck(inner_null, outer_null, inner_groove, outer_groove) ==
    IF inner_null < inner_groove - 1 THEN "InnerNullBelowInnerGroove"
    ELSE IF outer_null >= outer_groove THEN "OuterNullNotBelowOuterGroove"
    ELSE "none"

\* The checks applied to the nulls computed for a named alignment.
ValidateNamed(inner_null, outer_null, inner_groove, outer_groove) ==
    IF inner_null < inner_groove - tolerance THEN "InnerNullBelowInnerGroove"
    ELSE IF outer_null >= outer_groove THEN "OuterNullNotBelowOuterGroove"
    ELSE IF inner_null >= outer_null THEN "InnerNullNotBelowOuterNull"
    ELSE "none"

None == <<>>


\* SolveAndValidate looking the alignment up before it branches on custom_nulls.
SolveAndValidate_LooksUpAlignment(pivot_to_spindle, alignment, custom_nulls, inner_groove, outer_groove) ==
    IF alignment \notin {"baerwald", "lofgren_b", "stevenson"} THEN
        NoSolution("UnknownAlignmentType")
    ELSE IF custom_nulls # None THEN
        LET v == ValidateCustom(custom_nulls[1], custom_nulls[2],
                                inner_groove, outer_groove)
        IN  IF v # "none" THEN NoSolution(v)
            ELSE calculate_effective_length_from_nulls(
                     pivot_to_spindle, custom_nulls[1], custom_nulls[2])
    ELSE
        LET s == calculate_null_points(pivot_to_spindle, alignment,
                                       inner_groove, outer_groove)
            v == ValidateNamed(s.inner_null, s.outer_null, inner_groove, outer_groove)
        IN  IF s.exc # "none" THEN s
            ELSE IF v # "none" THEN NoSolution(v)
            ELSE s

\* Lines 204-241 of draw_arc_protractor: the solution, or the exception raised.
SolveAndValidate(pivot_to_spindle, alignment, custom_nulls, inner_groove, outer_groove) ==
    IF custom_nulls # None THEN
        LET v == ValidateCustom(custom_nulls[1], custom_nulls[2],
                                inner_groove, outer_groove)
        IN  IF v # "none" THEN NoSolution(v)
            ELSE calculate_effective_length_from_nulls(
                     pivot_to_spindle, custom_nulls[1], custom_nulls[2])
    ELSE
        LET s == calculate_null_points(pivot_to_spindle, alignment,
                                       inner_groove, outer_groove)
            v == ValidateNamed(s.inner_null, s.outer_null, inner_groove, outer_groove)
        IN  IF s.exc # "none" THEN s
            ELSE IF v # "none" THEN NoSolution(v)
            ELSE s

(***************************************************************************)
(* Layout geometry of draw_arc_protractor.  The nested functions read      *)
(* arc_radius (the effective length) and pivot_x (the mounting distance)   *)
(* from the enclosing call; here they are parameters.                      *)
(***************************************************************************)
\* x = (d**2 + r1**2 - r2**2) / (2 * d), for d # 0
IntersectionX(r1, r2, d) ==
    WDiv(WSub(WAdd(WMul(d, d), WMul(r1, r1)), WMul(r2, r2)), 2 * d)

\* r1**2 - x**2
YSquared(r1, x) == WSub(WMul(r1, r1), WMul(x, x))

\* calc_null_position that skips a circle that does not meet the arc, placing
\* the point on the axis instead of failing.
calc_null_position_SilentSkip(radius_from_spindle, arc_radius, pivot_x) ==
    IF pivot_x = 0 THEN [exc |-> "ZeroDivisionError", pos |-> None]
    ELSE LET x == IntersectionX(radius_from_spindle, arc_radius, pivot_x)
             y_squared == YSquared(radius_from_spindle, x)
         IN  IF WIsNeg(y_squared) THEN [exc |-> "none", pos |-> <<x, 0>>]
             ELSE [exc |-> "none", pos |-> <<x, -WSqrt(y_squared)>>]

\* calc_null_position: [exc, pos], pos the point <<x, y>> below the spindle.
calc_null_position(radius_from_spindle, arc_radius, pivot_x) ==
    IF pivot_x = 0 THEN [exc |-> "ZeroDivisionError", pos |-> None]
    ELSE LET x == IntersectionX(radius_from_spindle, arc_radius, pivot_x)
             y_squared == YSquared(radius_from_spindle, x)
         IN  IF WIsNeg(y_squared) THEN [exc |-> "MathDomainError", pos |-> None]
             ELSE [exc |-> "none", pos |-> <<x, -WSqrt(y_squared)>>]

\* draw_alignment_grid computes the same point before it draws (lines 456-461).
draw_alignment_grid(radius_from_spindle, arc_radius, pivot_x) ==
    calc_null_position(radius_from_spindle, arc_radius, pivot_x)

\* calc_arc_angle: [exc, angle]; angle is None when the radius is out of the
\* 0..200 mm range or the circles do not meet, and otherwise the point
\* <<x, y>> whose direction from the pivot is the angle.
calc_arc_angle(radius_from_spindle, arc_radius, pivot_x) ==
    IF radius_from_spindle < 0 \/ radius_from_spindle > 200000
    THEN [exc |-> "none", angle |-> None]
    ELSE IF pivot_x = 0 THEN [exc |-> "ZeroDivisionError", angle |-> None]
    ELSE LET x == IntersectionX(radius_from_spindle, arc_radius, pivot_x)
             y_squared == YSquared(radius_from_spindle, x)
         IN  IF WIsNeg(y_squared) THEN [exc |-> "none", angle |-> None]
             ELSE [exc |-> "none", angle |-> <<x, -WSqrt(y_squared)>>]

target_extension == 40000

\* The loop variable `extension` steps through range(target_extension, 0, -1)
\* in whole millimetres.
ExtensionStep == 1000

(***************************************************************************)
(* Inputs.                                                                 *)
(***************************************************************************)
AlignmentChoices == {"baerwald", "lofgren_b", "stevenson"}

\* pivot_to_spindle: argparse accepts any float, also zero and negatives.
\* 27.429 mm is one micron inside 27.43 mm, the distance at which the circle of
\* the published Baerwald inner null is tangent to the stylus arc: there the
\* rounding of effective_length lets the solver pass and the placement fail
\* (the floating-point program shows the same at 27.43 mm).
PivotDistances == {-215500, 0, 27429, 100000, 215500}

\* <<inner_groove, outer_groove>>
GrooveRadii ==
    { <<60325, 146050>>, <<60320, 146055>>, <<60315, 146050>>,
      <<60325, 140000>>, <<70000, 130000>>, <<100000, 105000>>,
      <<100000, 300000>>,
      <<146050, 60325>>, <<-10000, 100000>> }

\* custom_nulls: None, or <<inner, outer>>
CustomNulls ==
    { None, <<66000, 120900>>, <<50000, 200000>>, <<60325, 100000>>,
      <<70000, 146050>>, <<100000, 100000>>, <<120000, 70000>>,
      <<101000, 104000>>, <<110000, 180000>>, <<210000, 250000>>,
      <<-5000, 50000>> }

VARIABLES
    caller,        \* "main": run from the command line; "api": draw_arc_protractor called directly
    args,          \* the parsed arguments
    pc,            \* position in main / draw_arc_protractor
    solution,      \* the solver's result inside draw_arc_protractor
    raised,        \* the exception leaving draw_arc_protractor, "none" if none
    primitives,    \* what has been drawn on the canvas, in order
    layout,        \* the layout values computed so far, in order
    arc_start_radius,
    arc_end_radius,
    extension,     \* loop variable of the running extension search
    loop_calls,    \* calc_arc_angle calls made inside the two loops: <<inner, outer>>
    arc_angles,    \* <<start_angle, end_angle>> once computed
    file_saved,    \* c.save() has written the output file
    printed,       \* rows printed by --show-all
    stderr,        \* something was written to stderr
    exit_code,     \* process exit status, -1 while running
    label          \* the label-angle loop of draw_alignment_grid, when run on its own

vars == <<label, caller, args, pc, solution, raised, primitives, layout, arc_start_radius,
          arc_end_radius, extension, loop_calls, arc_angles, file_saved, printed,
          stderr, exit_code>>

\* Arguments of a run that generates a protractor.
GenerateArgs(alignments) ==
    [pivot_to_spindle : PivotDistances,
     alignment : alignments,
     custom_nulls : CustomNulls,
     groove : GrooveRadii,
     show_all : {FALSE}]

\* Arguments of a --show-all run; --alignment and --custom-nulls are not
\* read in that mode and are left at their defaults.
ShowAllArgs ==
    [pivot_to_spindle : PivotDistances,
     alignment : {"baerwald"},
     custom_nulls : {None},
     groove : GrooveRadii,
     show_all : {TRUE}]

\* The label-angle loop is not running.
LabelIdle == [pc |-> "idle", grid_angle |-> 0, label_angle |-> 0, pass |-> 0, first |-> 0]

\* argparse admits only the three alignment choices; a direct caller of
\* draw_arc_protractor can pass any string.
Init ==
    /\ \/ /\ caller = "main"
          /\ args \in GenerateArgs(AlignmentChoices) \cup ShowAllArgs
       \/ /\ caller = "api"
          /\ args \in GenerateArgs(AlignmentChoices \cup {"unknown"})
    /\ pc = "start"
    /\ solution = NoSolution("unset")
    /\ raised = "none"
    /\ primitives = <<>>
    /\ layout = <<>>
    /\ arc_start_radius = 0
    /\ arc_end_radius = 0
    /\ extension = 0
    /\ loop_calls = <<0, 0>>
    /\ arc_angles = <<>>
    /\ file_saved = FALSE
    /\ printed = <<>>
    /\ stderr = FALSE
    /\ exit_code = -1
    /\ label = LabelIdle

(***************************************************************************)
(* main                                                                    *)
(***************************************************************************)
ShowAllKeys == <<"baerwald", "lofgren_b", "stevenson">>

\* What the --show-all loop computes for each key, in order.
ShowAllRows(a) ==
    [i \in 1..3 |-> calculate_null_points(a.pivot_to_spindle, ShowAllKeys[i],
                                          a.groove[1], a.groove[2])]

\* The rows printed before the first call that raises (all three if none does).
PrintedRows(rows) ==
    IF rows[1].exc # "none" THEN <<>>
    ELSE IF rows[2].exc # "none" THEN SubSeq(rows, 1, 1)
    ELSE IF rows[3].exc # "none" THEN SubSeq(rows, 1, 2)
    ELSE rows

\* main with --show-all: print the table and return; an exception of
\* calculate_null_points is not caught here and ends the process with a
\* traceback and status 1.
ShowAll ==
    /\ pc = "start"
    /\ caller = "main"
    /\ args.show_all
    /\ LET rows == ShowAllRows(args)
           crashed == \E i \in 1..3 : rows[i].exc # "none"
       IN  /\ printed' = PrintedRows(rows)
           /\ stderr' = crashed
           /\ exit_code' = IF crashed THEN 1 ELSE 0
    /\ pc' = "exited"
    /\ UNCHANGED <<label, caller, args, solution, raised, primitives, layout,
                   arc_start_radius, arc_end_radius, extension, loop_calls,
                   arc_angles, file_saved>>

\* main without --show-all enters the try block and calls draw_arc_protractor.
MainCallsDraw ==
    /\ pc = "start"
    /\ caller = "main"
    /\ ~args.show_all
    /\ pc' = "solve"
    /\ UNCHANGED <<label, caller, args, solution, raised, primitives, layout,
                   arc_start_radius, arc_end_radius, extension, loop_calls,
                   arc_angles, file_saved, printed, stderr, exit_code>>

\* draw_arc_protractor called by another program.
DirectCall ==
    /\ pc = "start"
    /\ caller = "api"
    /\ pc' = "solve"
    /\ UNCHANGED <<label, caller, args, solution, raised, primitives, layout,
                   arc_start_radius, arc_end_radius, extension, loop_calls,
                   arc_angles, file_saved, printed, stderr, exit_code>>

\* draw_arc_protractor returned: main prints the specifications and ends.
MainSuccess ==
    /\ pc = "returned"
    /\ caller = "main"
    /\ exit_code' = 0
    /\ pc' = "exited"
    /\ UNCHANGED <<label, caller, args, solution, raised, primitives, layout,
                   arc_start_radius, arc_end_radius, extension, loop_calls,
                   arc_angles, file_saved, printed, stderr>>


\* MainError printing the message without sys.exit(1).
MainError_NoExit ==
    /\ pc = "raised"
    /\ caller = "main"
    /\ stderr' = TRUE
    /\ exit_code' = 0
    /\ pc' = "exited"
    /\ UNCHANGED <<label, caller, args, solution, raised, primitives, layout,
                   arc_start_radius, arc_end_radius, extension, loop_calls,
                   arc_angles, file_saved, printed>>

\* except Exception: print the message to stderr, sys.exit(1).
MainError ==
    /\ pc = "raised"
    /\ caller = "main"
    /\ stderr' = TRUE
    /\ exit_code' = 1
    /\ pc' = "exited"
    /\ UNCHANGED <<label, caller, args, solution, raised, primitives, layout,
                   arc_start_radius, arc_end_radius, extension, loop_calls,
                   arc_angles, file_saved, printed>>

(***************************************************************************)
(* draw_arc_protractor, step by step                                       *)
(***************************************************************************)
\* Null points and their validation (lines 204-241).
Solve ==
    /\ pc = "solve"
    /\ LET s == SolveAndValidate(args.pivot_to_spindle, args.alignment,
                                 args.custom_nulls, args.groove[1], args.groove[2])
       IN  /\ solution' = s
           /\ raised' = s.exc
           /\ pc' = IF s.exc = "none" THEN "canvas" ELSE "raised"
    /\ UNCHANGED <<label, caller, args, primitives, layout, arc_start_radius,
                   arc_end_radius, extension, loop_calls, arc_angles, file_saved,
                   printed, stderr, exit_code>>


\* DrawPage with a canvas that writes its file as soon as the page is started.
DrawPage_SavesFile ==
    /\ pc = "canvas"
    /\ primitives' = primitives \o <<"title", "cut_line", "data", "instructions",
                                     "scale_bar", "spindle", "pivot">>
    /\ file_saved' = TRUE
    /\ pc' = "null_lines"
    /\ UNCHANGED <<label, caller, args, solution, raised, layout, arc_start_radius,
                   arc_end_radius, extension, loop_calls, arc_angles,
                   printed, stderr, exit_code>>

\* DrawPage drawing the inner radius line with the page, before its end point
\* has been computed.
DrawPage_DrawsRadiusLine ==
    /\ pc = "canvas"
    /\ primitives' = primitives \o <<"title", "cut_line", "data", "instructions",
                                     "scale_bar", "spindle", "pivot",
                                     "inner_radius_line">>
    /\ pc' = "null_lines"
    /\ UNCHANGED <<label, caller, args, solution, raised, layout, arc_start_radius,
                   arc_end_radius, extension, loop_calls, arc_angles, file_saved,
                   printed, stderr, exit_code>>

\* The canvas object is created and the title, cutting line, data block,
\* instructions, scale bar, spindle and pivot are drawn (lines 243-437).
\* Creating the canvas does not write the file.
DrawPage ==
    /\ pc = "canvas"
    /\ primitives' = primitives \o <<"title", "cut_line", "data", "instructions",
                                     "scale_bar", "spindle", "pivot">>
    /\ pc' = "null_lines"
    /\ UNCHANGED <<label, caller, args, solution, raised, layout, arc_start_radius,
                   arc_end_radius, extension, loop_calls, arc_angles, file_saved,
                   printed, stderr, exit_code>>

\* The radius lines to the two null points (lines 556-562).
NullLines ==
    /\ pc = "null_lines"
    /\ LET inner == calc_null_position(solution.inner_null,
                        solution.effective_length, args.pivot_to_spindle)
           outer == calc_null_position(solution.outer_null,
                        solution.effective_length, args.pivot_to_spindle)
       IN  IF inner.exc # "none" THEN
               /\ raised' = inner.exc
               /\ pc' = "raised"
               /\ UNCHANGED <<primitives, layout>>
           ELSE IF outer.exc # "none" THEN
               /\ raised' = outer.exc
               /\ pc' = "raised"
               /\ primitives' = primitives \o <<"inner_radius_line">>
               /\ layout' = layout \o <<"inner_null_position">>
           ELSE
               /\ raised' = raised
               /\ pc' = "grids"
               /\ primitives' = primitives \o <<"inner_radius_line", "outer_radius_line">>
               /\ layout' = layout \o <<"inner_null_position", "outer_null_position">>
    /\ UNCHANGED <<label, caller, args, solution, arc_start_radius, arc_end_radius,
                   extension, loop_calls, arc_angles, file_saved, printed, stderr,
                   exit_code>>

\* draw_alignment_grid at the inner and at the outer null point (lines 565-566).
DrawGrids ==
    /\ pc = "grids"
    /\ LET inner == draw_alignment_grid(solution.inner_null,
                        solution.effective_length, args.pivot_to_spindle)
           outer == draw_alignment_grid(solution.outer_null,
                        solution.effective_length, args.pivot_to_spindle)
       IN  IF inner.exc # "none" THEN
               /\ raised' = inner.exc
               /\ pc' = "raised"
               /\ UNCHANGED <<primitives, layout>>
           ELSE IF outer.exc # "none" THEN
               /\ raised' = outer.exc
               /\ pc' = "raised"
               /\ primitives' = primitives \o <<"inner_grid", "inner_label">>
               /\ layout' = layout \o <<"inner_grid_angle">>
           ELSE
               /\ raised' = raised
               /\ pc' = "arc_inner"
               /\ primitives' = primitives \o <<"inner_grid", "inner_label",
                                                "outer_grid", "outer_label">>
               /\ layout' = layout \o <<"inner_grid_angle", "outer_grid_angle">>
    /\ UNCHANGED <<label, caller, args, solution, arc_start_radius, arc_end_radius,
                   extension, loop_calls, arc_angles, file_saved, printed, stderr,
                   exit_code>>

\* calc_arc_angle as draw_arc_protractor calls it, None or the angle.
ArcAngle(radius) ==
    calc_arc_angle(radius, solution.effective_length, args.pivot_to_spindle).angle

\* Lines 598-608: both radii get the full extension, the inner one is tested.
InnerTest ==
    /\ pc = "arc_inner"
    /\ arc_start_radius' = solution.inner_null - target_extension
    /\ arc_end_radius' = solution.outer_null + target_extension
    /\ IF ArcAngle(solution.inner_null - target_extension) = None
       THEN /\ pc' = "inner_search"
            /\ extension' = target_extension
       ELSE /\ pc' = "arc_outer"
            /\ extension' = extension
    /\ UNCHANGED <<label, caller, args, solution, raised, primitives, layout, loop_calls,
                   arc_angles, file_saved, printed, stderr, exit_code>>

\* InnerSearchStep that, on success, forgets the extension it has found.
InnerSearchStep_DropsExtension ==
    /\ pc = "inner_search"
    /\ loop_calls' = <<loop_calls[1] + 1, loop_calls[2]>>
    /\ IF ArcAngle(solution.inner_null - extension) # None
       THEN /\ arc_start_radius' = solution.inner_null
            /\ pc' = "arc_outer"
            /\ extension' = extension
       ELSE IF extension - ExtensionStep > 0
       THEN /\ arc_start_radius' = solution.inner_null - extension
            /\ pc' = "inner_search"
            /\ extension' = extension - ExtensionStep
       ELSE /\ arc_start_radius' = solution.inner_null
            /\ pc' = "arc_outer"
            /\ extension' = extension
    /\ UNCHANGED <<label, caller, args, solution, raised, primitives, layout,
                   arc_end_radius, arc_angles, file_saved, printed, stderr,
                   exit_code>>

\* One iteration of the loop of lines 610-616; when the range is exhausted
\* the else clause falls back to the inner null itself.
InnerSearchStep ==
    /\ pc = "inner_search"
    /\ loop_calls' = <<loop_calls[1] + 1, loop_calls[2]>>
    /\ IF ArcAngle(solution.inner_null - extension) # None
       THEN /\ arc_start_radius' = solution.inner_null - extension
            /\ pc' = "arc_outer"
            /\ extension' = extension
       ELSE IF extension - ExtensionStep > 0
       THEN /\ arc_start_radius' = solution.inner_null - extension
            /\ pc' = "inner_search"
            /\ extension' = extension - ExtensionStep
       ELSE /\ arc_start_radius' = solution.inner_null
            /\ pc' = "arc_outer"
            /\ extension' = extension
    /\ UNCHANGED <<label, caller, args, solution, raised, primitives, layout,
                   arc_end_radius, arc_angles, file_saved, printed, stderr,
                   exit_code>>

\* Lines 619-620: the outer radius is tested.
OuterTest ==
    /\ pc = "arc_outer"
    /\ IF ArcAngle(arc_end_radius) = None
       THEN /\ pc' = "outer_search"
            /\ extension' = target_extension
       ELSE /\ pc' = "arc_draw"
            /\ extension' = extension
    /\ UNCHANGED <<label, caller, args, solution, raised, primitives, layout,
                   arc_start_radius, arc_end_radius, loop_calls, arc_angles,
                   file_saved, printed, stderr, exit_code>>

\* OuterSearchStep over range(target_extension, -1, -1): one iteration more.
OuterSearchStep_OneMore ==
    /\ pc = "outer_search"
    /\ loop_calls' = <<loop_calls[1], loop_calls[2] + 1>>
    /\ IF ArcAngle(solution.outer_null + extension) # None
       THEN /\ arc_end_radius' = solution.outer_null + extension
            /\ pc' = "arc_draw"
            /\ extension' = extension
       ELSE IF extension - ExtensionStep >= 0
       THEN /\ arc_end_radius' = solution.outer_null + extension
            /\ pc' = "outer_search"
            /\ extension' = extension - ExtensionStep
       ELSE /\ arc_end_radius' = solution.outer_null
            /\ pc' = "arc_draw"
            /\ extension' = extension
    /\ UNCHANGED <<label, caller, args, solution, raised, primitives, layout,
                   arc_start_radius, arc_angles, file_saved, printed, stderr,
                   exit_code>>

\* One iteration of the loop of lines 621-626.
OuterSearchStep ==
    /\ pc = "outer_search"
    /\ loop_calls' = <<loop_calls[1], loop_calls[2] + 1>>
    /\ IF ArcAngle(solution.outer_null + extension) # None
       THEN /\ arc_end_radius' = solution.outer_null + extension
            /\ pc' = "arc_draw"
            /\ extension' = extension
       ELSE IF extension - ExtensionStep > 0
       THEN /\ arc_end_radius' = solution.outer_null + extension
            /\ pc' = "outer_search"
            /\ extension' = extension - ExtensionStep
       ELSE /\ arc_end_radius' = solution.outer_null
            /\ pc' = "arc_draw"
            /\ extension' = extension
    /\ UNCHANGED <<label, caller, args, solution, raised, primitives, layout,
                   arc_start_radius, arc_angles, file_saved, printed, stderr,
                   exit_code>>

\* Lines 629-642: the two angles; the arc is drawn only if both exist.
DrawArc ==
    /\ pc = "arc_draw"
    /\ LET start_angle == ArcAngle(arc_start_radius)
           end_angle == ArcAngle(arc_end_radius)
       IN  /\ arc_angles' = <<start_angle, end_angle>>
           /\ layout' = layout \o <<"arc_angles">>
           /\ primitives' = IF start_angle # None /\ end_angle # None
                            THEN primitives \o <<"arc">>
                            ELSE primitives
    /\ pc' = "save"
    /\ UNCHANGED <<label, caller, args, solution, raised, arc_start_radius,
                   arc_end_radius, extension, loop_calls, file_saved, printed,
                   stderr, exit_code>>

\* c.save() writes the file; draw_arc_protractor returns (lines 644-654).
Save ==
    /\ pc = "save"
    /\ file_saved' = TRUE
    /\ pc' = "returned"
    /\ UNCHANGED <<label, caller, args, solution, raised, primitives, layout,
                   arc_start_radius, arc_end_radius, extension, loop_calls,
                   arc_angles, printed, stderr, exit_code>>

Next ==
    \/ ShowAll
    \/ MainCallsDraw
    \/ DirectCall
    \/ Solve
    \/ DrawPage
    \/ NullLines
    \/ DrawGrids
    \/ InnerTest
    \/ InnerSearchStep
    \/ OuterTest
    \/ OuterSearchStep
    \/ DrawArc
    \/ Save
    \/ MainSuccess
    \/ MainError

Spec == Init /\ [][Next]_vars

\* The run is over: the process has exited, or draw_arc_protractor has
\* returned or raised to the program that called it.  No action of Next is
\* enabled in these states, and one is enabled in every other state.
Terminated ==
    \/ pc = "exited"
    \/ caller = "api" /\ pc \in {"returned", "raised"}

\* The interpreter runs the program to its end: a step that can be taken is
\* taken.  This is WF_vars(Next), with ENABLED <<Next>>_vars written out as
\* ~Terminated.
FairSpec == Spec /\ ([]<>Terminated \/ []<><<Next>>_vars)

(***************************************************************************)
(* The label-angle loop of draw_alignment_grid (lines 519-525), run on its *)
(* own over the range of math.degrees(math.atan2(..)), and run again on    *)
(* its own result.  Angles are integers, AngleResolution to the degree.    *)
(***************************************************************************)
AngleResolution == 2

Deg(n) == n * AngleResolution

\* The range of atan2, in degrees: [-180, 180].
GridAngles == Deg(-180)..Deg(180)

\* The variables of draw_arc_protractor and main, which the loop does not touch.
drawvars == <<caller, args, pc, solution, raised, primitives, layout, arc_start_radius,
              arc_end_radius, extension, loop_calls, arc_angles, file_saved, printed,
              stderr, exit_code>>

LabelInit ==
    /\ label \in [pc : {"assign"}, grid_angle : GridAngles, label_angle : {0},
                  pass : {1}, first : {0}]
    /\ caller = "api"
    /\ args = [pivot_to_spindle |-> 215500, alignment |-> "baerwald",
               custom_nulls |-> None, groove |-> <<60325, 146050>>,
               show_all |-> FALSE]
    /\ pc = "start"
    /\ solution = NoSolution("unset")
    /\ raised = "none"
    /\ primitives = <<>>
    /\ layout = <<>>
    /\ arc_start_radius = 0
    /\ arc_end_radius = 0
    /\ extension = 0
    /\ loop_calls = <<0, 0>>
    /\ arc_angles = <<>>
    /\ file_saved = FALSE
    /\ printed = <<>>
    /\ stderr = FALSE
    /\ exit_code = -1

\* label_angle = grid_angle (the second time: the first result)
LabelAssign ==
    /\ label.pc = "assign"
    /\ label' = [label EXCEPT !.pc = "sub",
                               !.label_angle = IF label.pass = 1 THEN label.grid_angle
                                               ELSE label.first]
    /\ UNCHANGED drawvars

\* while label_angle > 90: label_angle -= 180
LabelSubtract ==
    /\ label.pc = "sub"
    /\ label' = IF label.label_angle > Deg(90)
                THEN [label EXCEPT !.label_angle = label.label_angle - Deg(180)]
                ELSE [label EXCEPT !.pc = "add"]
    /\ UNCHANGED drawvars

\* LabelAdd without its loop: the angle is never raised.
LabelAdd_NoLoop ==
    /\ label.pc = "add"
    /\ label' = [label EXCEPT !.pc = "done"]
    /\ UNCHANGED drawvars

\* while label_angle < -90: label_angle += 180
LabelAdd ==
    /\ label.pc = "add"
    /\ label' = IF label.label_angle < Deg(-90)
                THEN [label EXCEPT !.label_angle = label.label_angle + Deg(180)]
                ELSE [label EXCEPT !.pc = "done"]
    /\ UNCHANGED drawvars

\* The loop is applied once more, to the angle it has just produced.
LabelAgain ==
    /\ label.pc = "done"
    /\ label.pass = 1
    /\ label' = [label EXCEPT !.pc = "assign", !.pass = 2,
                               !.first = label.label_angle]
    /\ UNCHANGED drawvars

LabelNext ==
    \/ LabelAssign
    \/ LabelSubtract
    \/ LabelAdd
    \/ LabelAgain

LabelSpec == LabelInit /\ [][LabelNext]_vars

(***************************************************************************)
(* Properties                                                              *)
(***************************************************************************)
\* draw_arc_protractor has passed lines 204-241, by returning or by raising.
Solved == pc \notin {"start", "solve"} /\ ~args.show_all

CustomPath == args.custom_nulls # None

ValidationErrors ==
    {"InnerNullNotAboveInnerGroove", "InnerNullBelowInnerGroove",
     "OuterNullNotBelowOuterGroove", "InnerNullNotBelowOuterNull"}

\* innerGroove < innerNull < outerNull < outerGroove
StrictChain(inner, outer, groove) ==
    groove[1] < inner /\ inner < outer /\ outer < groove[2]

\* C1: with custom nulls the run is rejected by a validation error, and no
\* solution is computed, unless innerGroove < innerNull < outerNull <
\* outerGroove holds strictly; an inner null at or below the inner groove is
\* rejected whatever the outer null is; every pair satisfying the chain
\* passes the validation.
C1_CustomNullsStrictChain ==
    (Solved /\ CustomPath) =>
        LET inner == args.custom_nulls[1]
            outer == args.custom_nulls[2]
        IN  /\ ~StrictChain(inner, outer, args.groove) =>
                /\ pc = "raised" \/ pc = "exited"
                /\ raised \in ValidationErrors
                /\ solution.exc = raised
                /\ primitives = <<>>
            /\ inner <= args.groove[1] => raised = "InnerNullNotAboveInnerGroove"
            /\ StrictChain(inner, outer, args.groove) => raised \notin ValidationErrors

\* Scenario 3 of the specification: inner null below the inner groove and outer
\* null above the outer groove, rejected.
C1_Witness ==
    /\ pc = "raised"
    /\ CustomPath
    /\ args.custom_nulls = <<50000, 200000>>
    /\ args.groove = <<60325, 146050>>
    /\ raised = "InnerNullNotAboveInnerGroove"

\* The three conditions of the post-solve validation.
PostSolveOK(inner, outer, groove) ==
    inner >= groove[1] - 1 /\ outer < groove[2] /\ inner < outer

\* C2: for a named alignment the run fails with an error whenever the computed
\* nulls violate innerNull >= innerGroove - 0.001, outerNull < outerGroove or
\* innerNull < outerNull, and it proceeds to layout only when all three hold.
C2_NamedPostSolveValidation ==
    (Solved /\ ~CustomPath) =>
        LET n == NullRadii(args.alignment, args.groove[1], args.groove[2])
        IN  /\ (n.exc = "none" /\ ~PostSolveOK(n.inner_null, n.outer_null, args.groove)) =>
                /\ raised # "none"
                /\ pc \in {"raised", "exited"}
                /\ primitives = <<>>
                /\ layout = <<>>
            /\ (pc \notin {"raised"} /\ raised = "none") =>
                /\ n.exc = "none"
                /\ solution.inner_null = n.inner_null
                /\ solution.outer_null = n.outer_null
                /\ PostSolveOK(solution.inner_null, solution.outer_null, args.groove)

\* A named alignment whose computed inner null is not below the outer null.
C2_Witness ==
    /\ pc = "raised"
    /\ ~CustomPath
    /\ args.alignment = "baerwald"
    /\ args.groove = <<100000, 105000>>
    /\ raised = "InnerNullNotBelowOuterNull"

\* The solver returned a solution and it passed validation.
Accepted == Solved /\ solution.exc = "none"

\* C3: in every accepted run innerNull < outerNull and both nulls lie strictly
\* inside (innerGroove, outerGroove), except that Stevenson's inner null may
\* equal innerGroove; no accepted Baerwald or LofgrenB solution has
\* innerNull <= innerGroove.
C3_NullsInsideGrooves ==
    Accepted =>
        /\ solution.inner_null < solution.outer_null
        /\ solution.outer_null < args.groove[2]
        /\ solution.outer_null > args.groove[1]
        /\ solution.inner_null < args.groove[2]
        /\ \/ solution.inner_null > args.groove[1]
           \/ /\ ~CustomPath
              /\ args.alignment = "stevenson"
              /\ solution.inner_null = args.groove[1]

\* An accepted Baerwald solution on scaled (non-IEC) grooves.
C3_Witness ==
    /\ Accepted
    /\ ~CustomPath
    /\ args.alignment = "baerwald"
    /\ args.groove = <<70000, 130000>>
    /\ solution.inner_null > 70000
    /\ pc = "returned"

\* Both groove radii are within the 0.01 mm tolerance of the IEC values.
NearIEC(groove) ==
    /\ -10 < groove[1] - 60325 /\ groove[1] - 60325 < 10
    /\ -10 < groove[2] - 146050 /\ groove[2] - 146050 < 10

\* The published null radii of an alignment on grooves with inner radius r_i.
Published(alignment, r_i) ==
    CASE alignment = "baerwald" -> <<66040, 120900>>
      [] alignment = "lofgren_b" -> <<70290, 116600>>
      [] alignment = "stevenson" -> <<r_i, 117420>>

\* What a call of calculate_null_points returned agrees with the claim.
C4_RowOK(alignment, groove, row) ==
    (row.exc = "none" /\ NearIEC(groove)) =>
        <<row.inner_null, row.outer_null>> = Published(alignment, groove[1])

GenerateEnded == caller = "main" /\ ~args.show_all /\ pc = "exited"

\* C5: in protractor-generation mode main exits with status 1 and a message
\* on stderr if and only if draw_arc_protractor raised; in every other run it
\* exits with status 0 (and the file has been written).
C5_ExitCodeIffDrawRaises ==
    /\ GenerateEnded =>
        /\ exit_code \in {0, 1}
        /\ (exit_code = 1) <=> (raised # "none")
        /\ stderr <=> (raised # "none")
        /\ (exit_code = 0) => file_saved
    /\ (caller = "main" /\ ~args.show_all /\ pc # "exited") => exit_code = -1

\* A layout error (non-intersecting null circle) ends main with status 1.
C5_Witness ==
    /\ GenerateEnded
    /\ exit_code = 1
    /\ stderr
    /\ raised = "MathDomainError"
    /\ primitives # <<>>

\* C6: no artifact on failure: in every run of draw_arc_protractor that ends
\* with an error, raised in validation, in null-point placement or later, the
\* output file has not been saved; the file is saved only as the last step of
\* a run in which every earlier step succeeded.
C6_NoArtifactOnFailure ==
    /\ (raised # "none" \/ pc = "raised" \/ exit_code = 1) => ~file_saved
    /\ file_saved =>
        /\ pc \in {"returned", "exited"}
        /\ solution.exc = "none"
        /\ layout = <<"inner_null_position", "outer_null_position",
                      "inner_grid_angle", "outer_grid_angle", "arc_angles">>
        /\ Len(arc_angles) = 2

\* A run that failed in null-point placement, after the page was started.
C6_Witness ==
    /\ pc = "raised"
    /\ solution.exc = "none"
    /\ raised = "MathDomainError"
    /\ primitives # <<>>
    /\ ~file_saved

\* Inputs inside the ranges the data model of the specification gives:
\* pivotToSpindle > 0 and 0 < innerGroove < outerGroove.
InputInRange ==
    /\ args.pivot_to_spindle > 0
    /\ 0 < args.groove[1]
    /\ args.groove[1] < args.groove[2]

\* C7 (the claim as stated): in --show-all mode a named alignment whose computed
\* nulls violate the post-solve validation is reported as an error: no such
\* row is printed by a run that ends with status 0.  Stated for inputs in
\* range, so that no other defect is involved.
C7_ShowAllReportsInvalidNulls ==
    (caller = "main" /\ args.show_all /\ pc = "exited" /\ InputInRange) =>
        \A i \in 1..Len(printed) :
            ~PostSolveOK(printed[i].inner_null, printed[i].outer_null, args.groove)
                => (exit_code = 1 /\ stderr)

\* draw_arc_protractor has reached the arc stage, where calc_arc_angle exists.
ArcStage ==
    pc \in {"arc_inner", "inner_search", "arc_outer", "outer_search", "arc_draw",
            "save", "returned"}

\* C8 (the claim as stated): for every solution that passed validation,
\* calc_arc_angle(innerNull) and calc_arc_angle(outerNull) both return an
\* angle, never None.  Stated for inputs in range, so that no other defect is
\* involved.
C8_NullRadiiHaveArcAngles ==
    (ArcStage /\ solution.exc = "none" /\ InputInRange) =>
        /\ ArcAngle(solution.inner_null) # None
        /\ ArcAngle(solution.outer_null) # None

\* C9 (the claim as stated): a run with pivotToSpindle <= 0 is rejected with
\* an error and never produces an artifact, on the named and the custom path.
C9_NonPositiveDistanceRejected ==
    (args.pivot_to_spindle <= 0 /\ ~args.show_all) =>
        /\ ~file_saved
        /\ pc # "returned"
        /\ exit_code # 0

\* C10: with custom nulls the outcome of lines 204-241 (the nulls, effective
\* length, overhang and angles, or the exception) is the same for every value
\* of the alignment argument, an unknown one included, and no unknown-alignment
\* error is raised.
C10_AlignmentIgnoredWithCustomNulls ==
    (Solved /\ CustomPath) =>
        /\ \A a \in AlignmentChoices \cup {"unknown"} :
               SolveAndValidate(args.pivot_to_spindle, a, args.custom_nulls,
                                args.groove[1], args.groove[2]) = solution
        /\ raised # "UnknownAlignmentType"
        /\ solution.exc # "UnknownAlignmentType"

\* A direct call with custom nulls and an unknown alignment that runs to the end.
C10_Witness ==
    /\ caller = "api"
    /\ args.alignment = "unknown"
    /\ CustomPath
    /\ pc = "returned"
    /\ solution.exc = "none"
    /\ file_saved

\* x occurs in the sequence seq.
InSeq(x, seq) == \E i \in 1..Len(seq) : seq[i] = x

\* Every layout value of a run, in the order the code computes them.
FullLayout ==
    <<"inner_null_position", "outer_null_position",
      "inner_grid_angle", "outer_grid_angle", "arc_angles">>

\* C11 (the claim as stated): null-point computation and validation are
\* complete before any layout value is computed, and all layout computation
\* (null positions, grid angles, arc extent) is complete before the first
\* drawing primitive is issued.
C11_LayoutBeforeDrawing ==
    InputInRange =>
        /\ layout # <<>> => (Solved /\ solution.exc = "none")
        /\ primitives # <<>> => layout = FullLayout

\* C11 (amended): null-point computation and validation are complete before
\* any layout value is computed and before any primitive is issued; the page
\* furniture is issued before layout, and each primitive that depends on a
\* layout value (radius line, grid, label, arc) is issued only after that
\* value is computed; the file is saved only when the whole layout is done.
C11_SolveThenLayoutPerElement ==
    /\ (layout # <<>> \/ primitives # <<>>) => (Solved /\ solution.exc = "none")
    /\ InSeq("inner_radius_line", primitives) => InSeq("inner_null_position", layout)
    /\ InSeq("outer_radius_line", primitives) => InSeq("outer_null_position", layout)
    /\ InSeq("inner_grid", primitives) => InSeq("inner_grid_angle", layout)
    /\ InSeq("inner_label", primitives) => InSeq("inner_grid_angle", layout)
    /\ InSeq("outer_grid", primitives) => InSeq("outer_grid_angle", layout)
    /\ InSeq("outer_label", primitives) => InSeq("outer_grid_angle", layout)
    /\ InSeq("arc", primitives) => InSeq("arc_angles", layout)
    /\ layout # <<>> => InSeq("title", primitives)
    /\ file_saved => layout = FullLayout

\* The page furniture is on the canvas and no layout value exists yet.
C11_Witness ==
    /\ pc = "null_lines"
    /\ solution.exc = "none"
    /\ InSeq("title", primitives)
    /\ InSeq("pivot", primitives)
    /\ layout = <<>>

\* C12 (the claim as stated): when calc_arc_angle fails even at the null radius
\* itself, the run ends with an error: no run saves the file with the stylus
\* arc left out.  Stated for inputs in range.
C12_NoIntersectionSurfaced ==
    (file_saved /\ InputInRange) =>
        /\ InSeq("arc", primitives)
        /\ arc_angles[1] # None
        /\ arc_angles[2] # None

\* C13 (the claim as stated): for every grid angle in [-180, 180] the label
\* angle lies in (-90, 90], differs from the grid angle by a multiple of 180,
\* and normalising it again changes nothing.
C13_LabelAngleHalfOpen ==
    label.pc = "done" =>
        /\ Deg(-90) < label.label_angle
        /\ label.label_angle <= Deg(90)
        /\ (label.label_angle - label.grid_angle) % Deg(180) = 0
        /\ label.pass = 2 => label.label_angle = label.first

\* C13 (amended): for every grid angle in [-180, 180] the label angle lies in
\* the closed interval [-90, 90] (a grid angle of -90 is left as it is),
\* differs from the grid angle by a multiple of 180, and normalising it again
\* changes nothing.
C13_LabelAngleClosedInterval ==
    label.pc = "done" =>
        /\ Deg(-90) <= label.label_angle
        /\ label.label_angle <= Deg(90)
        /\ (label.label_angle - label.grid_angle) % Deg(180) = 0
        /\ label.pass = 2 => label.label_angle = label.first

\* A grid angle of -90 has gone through the loop twice and is still -90.
C13_Witness ==
    /\ label.pc = "done"
    /\ label.pass = 2
    /\ label.grid_angle = Deg(-90)
    /\ label.label_angle = Deg(-90)

\* calc_arc_angle succeeds at radius r in the current run.
Feasible(r) == ArcAngle(r) # None

\* The extension the claim describes for the side of a null radius; sign is -1
\* on the inner side and 1 on the outer side.
BestExtension(null, sign) ==
    IF Feasible(null + sign * target_extension) THEN target_extension
    ELSE LET S == {e \in 1..39 : Feasible(null + sign * e * ExtensionStep)}
         IN  IF S = {} THEN 0
             ELSE ExtensionStep * (CHOOSE e \in S : \A f \in S : f <= e)

\* C14: the resolved arc_start_radius is innerNull - e_in and arc_end_radius is
\* outerNull + e_out, e being 40 mm if calc_arc_angle succeeds there, otherwise
\* the largest whole millimetre in 1..39 at which it succeeds, otherwise 0; the
\* inner result is fixed before the outer search runs and is not changed by it,
\* and the outer result is computed from the outer null alone.
C14_LargestFeasibleExtension ==
    /\ pc \in {"arc_outer", "outer_search", "arc_draw", "save", "returned"} =>
           arc_start_radius =
               solution.inner_null - BestExtension(solution.inner_null, -1)
    /\ pc \in {"arc_draw", "save", "returned"} =>
           arc_end_radius =
               solution.outer_null + BestExtension(solution.outer_null, 1)

\* Both searches ran and each stopped at an extension strictly between 0 and
\* 40 mm.
C14_Witness ==
    /\ pc = "arc_draw"
    /\ loop_calls[1] > 1
    /\ loop_calls[2] > 1
    /\ solution.inner_null - target_extension < arc_start_radius
    /\ arc_start_radius < solution.inner_null
    /\ solution.outer_null < arc_end_radius
    /\ arc_end_radius < solution.outer_null + target_extension

\* C15: each of the two searches calls calc_arc_angle at most 40 times inside
\* its loop, and a search that has started always ends: the inner one hands
\* over to the outer test, the outer one to the drawing of the arc.
C15_SearchTerminates ==
    /\ [](loop_calls[1] <= 40 /\ loop_calls[2] <= 40)
    /\ (pc = "inner_search") ~> (pc = "arc_outer")
    /\ (pc = "outer_search") ~> (pc = "arc_draw")

\* The outer search used all 40 iterations and fell back to the null radius.
C15_Witness ==
    /\ pc = "arc_draw"
    /\ loop_calls[2] = 40
    /\ arc_end_radius = solution.outer_null

\* r1^2 < x^2 for the circle of radius r around the spindle.
NoIntersection(r) ==
    /\ args.pivot_to_spindle # 0
    /\ WIsNeg(YSquared(r, IntersectionX(r, solution.effective_length,
                                        args.pivot_to_spindle)))

\* C16: whenever r1^2 < x^2 at the inner or the outer null radius of a
\* validated solution, the run ends with an error once placement has run: no
\* null-point marker (dot, grid, label) is drawn and the file is not saved.
C16_NonIntersectingPlacementFails ==
    (Accepted /\ pc \notin {"canvas", "null_lines"}
        /\ (NoIntersection(solution.inner_null) \/ NoIntersection(solution.outer_null))) =>
        /\ pc \in {"raised", "exited"}
        /\ raised = "MathDomainError"
        /\ \A m \in {"inner_grid", "inner_label", "outer_grid", "outer_label", "arc"} :
               ~InSeq(m, primitives)
        /\ ~file_saved
        /\ exit_code # 0

\* main has ended with status 1 on a validated solution whose inner null circle
\* does not meet the stylus arc.
C16_Witness ==
    /\ caller = "main"
    /\ pc = "exited"
    /\ exit_code = 1
    /\ solution.exc = "none"
    /\ NoIntersection(solution.inner_null)
    /\ ~InSeq("inner_grid", primitives)

\* Two solver results agree on the exception, the effective length, the
\* overhang and the two angles.
SameSolution(a, b) ==
    /\ a.exc = b.exc
    /\ a.effective_length = b.effective_length
    /\ a.overhang = b.overhang
    /\ a.offset_angle = b.offset_angle
    /\ a.tracking_angle_midpoint = b.tracking_angle_midpoint

\* C17: for the nulls (n1, n2) a named alignment selects,
\* calculate_effective_length_from_nulls(d, n1, n2) gives the effective length,
\* overhang and angles that calculate_null_points gives; and for a custom
\* solution the closed form sqrt(d^2 + n1*n2) recomputed from (d, n1, n2) is
\* its effective length, its overhang is effective_length - d, and the tail of
\* calculate_null_points gives the same values for these nulls.
C17_SolverPathsAgree ==
    /\ (Solved /\ ~CustomPath) =>
           LET n == NullRadii(args.alignment, args.groove[1], args.groove[2])
           IN  n.exc = "none" =>
                   SameSolution(
                       calculate_effective_length_from_nulls(
                           args.pivot_to_spindle, n.inner_null, n.outer_null),
                       calculate_null_points(args.pivot_to_spindle, args.alignment,
                                             args.groove[1], args.groove[2]))
    /\ (Accepted /\ CustomPath) =>
           /\ solution.effective_length =
                  WSqrt(WAdd(WMul(args.pivot_to_spindle, args.pivot_to_spindle),
                             WMul(args.custom_nulls[1], args.custom_nulls[2])))
           /\ solution.overhang = solution.effective_length - args.pivot_to_spindle
           /\ SameSolution(solution,
                           BauerSolution(args.pivot_to_spindle,
                                         args.custom_nulls[1], args.custom_nulls[2]))

\* Scenario 1 of the specification solved through the named path, and the
\* custom solver agreeing on its effective length of 239.07 mm.
C17_Witness ==
    /\ Accepted
    /\ ~CustomPath
    /\ args.alignment = "baerwald"
    /\ args.groove = <<60325, 146050>>
    /\ args.pivot_to_spindle = 215500
    /\ solution.effective_length = 233291
    /\ calculate_effective_length_from_nulls(215500, 66040, 120900).effective_length
           = solution.effective_length

====
